---- MODULE Spec2Model ----
\* SSL certificate expiry checker (sslchecker.py): get_cert_info, check_expiry
\* and the part of main that drives them (the per-host loop and the Alerts
\* stage).  Time is counted in whole hours; a naive datetime is the number of
\* hours it reads, an absolute instant is the number of hours in GMT.
EXTENDS Integers, Sequences, FiniteSets, TLC

\* ---------------------------------------------------------------- bounds
\* Longest list of hostnames given to the program.
MaxHosts == 2
\* Number of hours the clock may advance during a run.
MaxClock == 2

\* ------------------------------------------------------------- constants
\* Hours in one day of a timedelta (the unit of .days).
HoursPerDay == 24
\* The "Expiring Soon" threshold of check_expiry, in days.
SoonDays == 30
\* The instant the clock shows when the program starts (day 10, 00:00 GMT),
\* and the instants it may show later.
StartClock == 10 * HoursPerDay
ClockValues == StartClock..(StartClock + MaxClock)
\* Offsets (hours east of GMT) of the local time zone of the machine.
TzOffsets == {-1, 0, 1}

Hostnames == {"a.test", "b.test"}

\* Python's None as the value of the days field: the field holds <<>> for
\* None and <<d>> for the integer d.
None == <<>>
Some(d) == <<d>>

\* ------------------------------------------------- the servers (environment)
\* notAfter texts "Mon DD HH:MM:SS YYYY TZ", kept as <<day, hour, zone>>.
\* <<4,23>>: 5 days 1 hour before the start, <<9,12>>: 12 hours before,
\* <<10,0>>: the start itself, <<40,0>>: 30 days after the start.
NotAfterTexts ==
    {<<4, 23, "GMT">>, <<9, 12, "GMT">>, <<10, 0, "GMT">>, <<40, 0, "GMT">>}
\* A text the format does not match (the zone is missing).
MalformedText == <<10, 0>>

\* The issuer field of getpeercert(): a tuple of RDNs, each a (name, value).
IssuerWithOrg == << <<"countryName", "US">>, <<"organizationName", "ExampleCA">> >>
IssuerNoOrg == << <<"countryName", "US">>, <<"commonName", "R3">> >>

\* What getpeercert() returns for a server that completes the handshake.
GoodCerts ==
    {[notAfter |-> t, issuer |-> i] : t \in NotAfterTexts, i \in {IssuerWithOrg, IssuerNoOrg}}
BadCerts ==
    {[notAfter |-> MalformedText, issuer |-> IssuerWithOrg], [issuer |-> IssuerWithOrg]}

\* How a server behaves: it refuses the connection, never answers the SYN
\* (the OS gives up the connect), accepts but never speaks TLS, fails the
\* handshake, or completes it and presents a certificate.
Behaviours ==
    {[kind |-> k, cert |-> [issuer |-> IssuerNoOrg]] :
        k \in {"refused", "unreachable", "silent", "badhandshake"}}
    \cup {[kind |-> "ok", cert |-> c] : c \in GoodCerts \cup BadCerts}

\* The behaviour written for a host that is not in the list.
NoServer == [kind |-> "refused", cert |-> [issuer |-> IssuerNoOrg]]

ConnRefusedMsg == "[Errno 111] Connection refused"
ConnTimeoutMsg == "[Errno 110] Connection timed out"
HandshakeMsg == "[SSL: CERTIFICATE_VERIFY_FAILED] certificate verify failed"
KeyErrorMsg == "'notAfter'"
ValueErrorMsg == "time data does not match format '%b %d %H:%M:%S %Y %Z'"
NoExc == ""

VARIABLES
    hosts,        \* the hostnames given to the program
    fetcher,      \* what each host's server does (fixed for the run)
    tzOffset,     \* the machine's local zone, hours east of GMT
    clock,        \* the absolute current instant, hours GMT
    mode,         \* "batch": check_expiry(hosts) twice; "main": main()
    pc,           \* position of the program
    call,         \* batch: which call of check_expiry is running
    arg,          \* check_expiry: its hosts argument
    idx,          \* check_expiry: position of the for loop in arg
    results,      \* check_expiry: its results list
    openSocks,    \* number of open TCP connections
    openSessions, \* number of open TLS sessions
    attempts,     \* connection attempts made by the current get_cert_info
    expiry,       \* check_expiry: local expiry (naive datetime)
    issuer_name,  \* check_expiry: local issuer_name
    now,          \* check_expiry: local now (naive datetime)
    days_left,    \* check_expiry: local days_left
    exc,          \* message of the exception in flight
    ret1,         \* batch: value returned by the first call
    ret2,         \* batch: value returned by the second call
    mainResults,  \* main: its results list
    mi,           \* main: position of the for loop in hosts
    progress,     \* main: numerator of the progress bar
    alerts        \* main: the alerts emitted so far

vars == <<hosts, fetcher, tzOffset, clock, mode, pc, call, arg, idx, results,
          openSocks, openSessions, attempts, expiry, issuer_name, now,
          days_left, exc, ret1, ret2, mainResults, mi, progress, alerts>>

envVars == <<hosts, fetcher, tzOffset, mode>>
connVars == <<openSocks, openSessions, attempts>>
localVars == <<expiry, issuer_name, now, days_left>>
mainVars == <<mainResults, mi, progress, alerts>>
batchVars == <<call, ret1, ret2>>

HostLists == UNION {[1..n -> Hostnames] : n \in 0..MaxHosts}

\* ------------------------------------------------------- pure functions
\* datetime.strptime(expiry_str, '%b %d %H:%M:%S %Y %Z'): a naive datetime,
\* the zone name is matched and dropped; ok is FALSE for a ValueError.
strptime(text) ==
    IF Len(text) = 3 /\ text[3] \in {"GMT", "UTC"}
    THEN [ok |-> TRUE, value |-> text[1] * HoursPerDay + text[2]]
    ELSE [ok |-> FALSE, value |-> 0]

\* dict(x[0] for x in cert['issuer']).get('organizationName', 'Unknown Issuer')
IssuerName(issuer) ==
    LET at == {i \in 1..Len(issuer) : issuer[i][1] = "organizationName"}
    IN IF at = {} THEN "Unknown Issuer"
       ELSE issuer[CHOOSE i \in at : \A j \in at : j <= i][2]

\* datetime.now(): the local wall-clock reading of the instant t.
LocalNow(t) == t + tzOffset

\* (expiry - now).days: timedelta normalises to 0 <= seconds < 86400, so
\* days is the floor of the difference.
\* (DaysTrunc: the same difference rounded toward zero instead.)
DaysTrunc(delta) ==
    IF delta >= 0 THEN delta \div HoursPerDay ELSE -((-delta) \div HoursPerDay)
Days(delta) == delta \div HoursPerDay

\* Lines 28-33: the status of a days value.
\* (ClassifyInclusive: 30 itself still Expiring Soon; ClassifyZeroExpired:
\* 0 already Expired.)
ClassifyInclusive(d) ==
    IF d < 0 THEN "Expired" ELSE IF d <= SoonDays THEN "Expiring Soon" ELSE "Valid"
ClassifyZeroExpired(d) ==
    IF d <= 0 THEN "Expired" ELSE IF d < SoonDays THEN "Expiring Soon" ELSE "Valid"
Classify(d) ==
    IF d < 0 THEN "Expired" ELSE IF d < SoonDays THEN "Expiring Soon" ELSE "Valid"

\* Line 34: the record of a host whose fetch succeeded.
OkRecord(host, d, status, issuer) == <<host, Some(d), status, issuer>>

\* Line 36: the record of a host whose fetch raised.
\* (ErrorRecordZeroDays: 0 written in place of None.)
ErrorRecordZeroDays(host, msg) == <<host, Some(0), "Error: " \o msg, "Unknown Issuer">>
ErrorRecord(host, msg) == <<host, None, "Error: " \o msg, "Unknown Issuer">>

\* Lines 106-111: the alert main emits for one record.
Abs(n) == IF n < 0 THEN -n ELSE n
Alert(rec) ==
    IF rec[3] = "Expired"
    THEN [kind |-> "error", host |-> rec[1], days |-> Some(Abs(rec[2][1]))]
    ELSE IF rec[3] = "Expiring Soon"
    THEN [kind |-> "warning", host |-> rec[1], days |-> rec[2]]
    ELSE [kind |-> "success", host |-> rec[1], days |-> rec[2]]

\* ------------------------------------------------------------------ Init
Init ==
    /\ mode \in {"batch", "main"}
    /\ hosts \in HostLists
    \* main: hosts = host_input.strip().split("\n") is never empty
    /\ mode = "main" => Len(hosts) >= 1
    /\ fetcher \in [Hostnames -> Behaviours]
    \* a server the program never contacts plays no part
    /\ \A h \in Hostnames :
        (\A i \in 1..Len(hosts) : hosts[i] # h) => fetcher[h] = NoServer
    /\ tzOffset \in TzOffsets
    /\ clock = StartClock
    /\ pc = "start"
    /\ call = 1
    /\ arg = <<>>
    /\ idx = 1
    /\ results = <<>>
    /\ openSocks = 0
    /\ openSessions = 0
    /\ attempts = 0
    /\ expiry = 0
    /\ issuer_name = ""
    /\ now = 0
    /\ days_left = 0
    /\ exc = NoExc
    /\ ret1 = <<>>
    /\ ret2 = <<>>
    /\ mainResults = <<>>
    /\ mi = 1
    /\ progress = 0
    /\ alerts = <<>>

\* ------------------------------------------------------------- actions
\* The host of the current iteration of check_expiry's loop.
host == arg[idx]

\* A call check_expiry(h): a fresh frame, results = [] (line 22).
\* (CallCheckExpiryKeepResults: the list survives from the call before, as
\* with a mutable default argument.)
CallCheckExpiryKeepResults(h) ==
    /\ arg' = h
    /\ idx' = 1
    /\ UNCHANGED results
    /\ expiry' = 0
    /\ issuer_name' = ""
    /\ now' = 0
    /\ days_left' = 0
    /\ pc' = "loop"
CallCheckExpiry(h) ==
    /\ arg' = h
    /\ idx' = 1
    /\ results' = <<>>
    /\ expiry' = 0
    /\ issuer_name' = ""
    /\ now' = 0
    /\ days_left' = 0
    /\ pc' = "loop"

\* Batch use: check_expiry(hosts), called a first and a second time.
Start ==
    /\ pc = "start"
    /\ mode = "batch"
    /\ CallCheckExpiry(hosts)
    /\ UNCHANGED <<envVars, clock, connVars, exc, batchVars, mainVars>>

\* main, lines 73-76: the button is pressed, results = [].
MainStart ==
    /\ pc = "start"
    /\ mode = "main"
    /\ mainResults' = <<>>
    /\ progress' = 0
    /\ pc' = "main_loop"
    /\ UNCHANGED <<envVars, clock, connVars, exc, batchVars, arg, idx, results,
                   localVars, mi, alerts>>

\* main, lines 78-79: the next host is checked on its own, or the loop ends
\* and the Alerts stage begins.
MainLoop ==
    /\ pc = "main_loop"
    /\ IF mi <= Len(hosts)
       THEN CallCheckExpiry(<<hosts[mi]>>)
       ELSE /\ pc' = "alerts"
            /\ UNCHANGED <<arg, idx, results, localVars>>
    /\ UNCHANGED <<envVars, clock, connVars, exc, batchVars, mainVars>>

\* Line 23: the for loop takes the next host, or ends.
LoopHead ==
    /\ pc = "loop"
    /\ IF idx <= Len(arg)
       THEN pc' = "connect" /\ attempts' = 0
       ELSE pc' = "return" /\ UNCHANGED attempts
    /\ UNCHANGED <<envVars, clock, openSocks, openSessions, exc, batchVars,
                   mainVars, arg, idx, results, localVars>>

\* Line 11: socket.create_connection((host, 443)), no timeout argument.
Connect ==
    /\ pc = "connect"
    /\ attempts' = attempts + 1
    /\ LET kind == fetcher[host].kind
       IN IF kind = "refused"
          THEN exc' = ConnRefusedMsg /\ pc' = "except" /\ UNCHANGED openSocks
          ELSE IF kind = "unreachable"
          THEN exc' = ConnTimeoutMsg /\ pc' = "except" /\ UNCHANGED openSocks
          ELSE openSocks' = openSocks + 1 /\ pc' = "handshake" /\ UNCHANGED exc
    /\ UNCHANGED <<envVars, clock, openSessions, batchVars, mainVars, arg, idx,
                   results, localVars>>

\* Lines 11-12, __exit__ of the with blocks: what is open is closed.
\* (LeakSock: the socket is left open when the handshake raises.)
LeakSock == UNCHANGED <<openSocks, openSessions>>
ReleaseSock == openSocks' = openSocks - 1 /\ UNCHANGED openSessions
ReleaseBoth == openSocks' = openSocks - 1 /\ openSessions' = openSessions - 1

\* Line 12: context.wrap_socket(sock, server_hostname=host) performs the
\* handshake on a blocking socket.  A server that never speaks leaves the
\* call waiting: no step of the program is enabled.
Handshake ==
    /\ pc = "handshake"
    /\ fetcher[host].kind \in {"badhandshake", "ok"}
    /\ IF fetcher[host].kind = "badhandshake"
       THEN exc' = HandshakeMsg /\ pc' = "except" /\ ReleaseSock
       ELSE /\ openSessions' = openSessions + 1
            /\ pc' = "cert"
            /\ UNCHANGED <<openSocks, exc>>
    /\ UNCHANGED <<envVars, clock, attempts, batchVars, mainVars, arg, idx,
                   results, localVars>>

\* Lines 13-18: the certificate's fields are read and parsed, the with
\* blocks are left (by return or by the exception), line 25 binds the result.
ReadCert ==
    /\ pc = "cert"
    /\ LET cert == fetcher[host].cert
       IN IF "notAfter" \notin DOMAIN cert
          THEN exc' = KeyErrorMsg /\ pc' = "except"
               /\ UNCHANGED <<expiry, issuer_name>>
          ELSE IF ~strptime(cert.notAfter).ok
          THEN exc' = ValueErrorMsg /\ pc' = "except"
               /\ UNCHANGED <<expiry, issuer_name>>
          ELSE /\ expiry' = strptime(cert.notAfter).value
               /\ issuer_name' = IssuerName(cert.issuer)
               /\ pc' = "evaluate"
               /\ UNCHANGED exc
    /\ ReleaseBoth
    /\ UNCHANGED <<envVars, clock, attempts, batchVars, mainVars, arg, idx,
                   results, now, days_left>>

\* Lines 26-34: now is sampled, the days and the status are computed and the
\* record is appended.
Evaluate ==
    /\ pc = "evaluate"
    /\ \E t \in ClockValues :
        /\ t >= clock
        /\ clock' = t
        /\ now' = LocalNow(t)
    /\ days_left' = Days(expiry - now')
    /\ results' = Append(results,
                         OkRecord(host, days_left', Classify(days_left'), issuer_name))
    /\ idx' = idx + 1
    /\ pc' = "loop"
    /\ UNCHANGED <<envVars, connVars, exc, batchVars, mainVars, arg, expiry,
                   issuer_name>>

\* Lines 35-36: except Exception as e.
\* (ExceptNoRecord: the handler swallows the exception without a record.)
ExceptNoRecord ==
    /\ pc = "except"
    /\ exc' = NoExc
    /\ idx' = idx + 1
    /\ pc' = "loop"
    /\ UNCHANGED <<envVars, clock, connVars, batchVars, mainVars, arg, results,
                   localVars>>
Except ==
    /\ pc = "except"
    /\ results' = Append(results, ErrorRecord(host, exc))
    /\ exc' = NoExc
    /\ idx' = idx + 1
    /\ pc' = "loop"
    /\ UNCHANGED <<envVars, clock, connVars, batchVars, mainVars, arg, localVars>>

\* Line 37: return results, to the batch caller or to main's loop
\* (lines 79-80: results.extend(...), progress.progress((i + 1) / len(hosts))).
Return ==
    /\ pc = "return"
    /\ IF mode = "batch"
       THEN /\ IF call = 1
               THEN ret1' = results /\ call' = 2 /\ pc' = "start" /\ UNCHANGED ret2
               ELSE ret2' = results /\ pc' = "done" /\ UNCHANGED <<ret1, call>>
            /\ UNCHANGED mainVars
       ELSE /\ mainResults' = mainResults \o results
            /\ progress' = mi
            /\ mi' = mi + 1
            /\ pc' = "main_loop"
            /\ UNCHANGED <<alerts, batchVars>>
    /\ UNCHANGED <<envVars, clock, connVars, exc, arg, idx, results, localVars>>

\* Lines 104-111: one alert per record, in order.
EmitAlert ==
    /\ pc = "alerts"
    /\ IF Len(alerts) < Len(mainResults)
       THEN alerts' = Append(alerts, Alert(mainResults[Len(alerts) + 1]))
            /\ UNCHANGED pc
       ELSE pc' = "done" /\ UNCHANGED alerts
    /\ UNCHANGED <<envVars, clock, connVars, exc, batchVars, arg, idx, results,
                   localVars, mainResults, mi, progress>>

Next ==
    \/ Start
    \/ MainStart
    \/ MainLoop
    \/ LoopHead
    \/ Connect
    \/ Handshake
    \/ ReadCert
    \/ Evaluate
    \/ Except
    \/ Return
    \/ EmitAlert

Spec == Init /\ [][Next]_vars

\* The interpreter runs the program whenever a step of it is enabled.
FairSpec == Spec /\ WF_vars(Next)

\* ------------------------------------------------------------ the claims
Last(s) == s[Len(s)]

\* The three statuses of a successful check, and the statuses of a failed one.
DayStatuses == {"Expired", "Expiring Soon", "Valid"}
ErrorStatuses ==
    {"Error: " \o m : m \in {ConnRefusedMsg, ConnTimeoutMsg, HandshakeMsg,
                             KeyErrorMsg, ValueErrorMsg}}

\* The record lists the program holds, each with the hosts it was built from.
RecordLists ==
    {<<results, arg>>, <<ret1, hosts>>, <<ret2, hosts>>, <<mainResults, hosts>>}

\* recs has one record per host of hs, in order, with the host verbatim.
Matches(recs, hs) ==
    /\ Len(recs) = Len(hs)
    /\ \A i \in 1..Len(hs) : recs[i][1] = hs[i]

\* check_expiry has just appended the record of a successful fetch: the
\* locals expiry, now and days_left are the ones the record was made from.
JustEvaluated ==
    /\ pc = "loop"
    /\ Len(results) > 0
    /\ Last(results)[2] # None

\* C1: check_expiry(hosts) returns exactly one record per input host, in
\* input order, each with its host verbatim (duplicates and failing hosts
\* included); so does the list main builds with check_expiry([host]) per host.
C1_OneRecordPerHost ==
    /\ pc = "return" => Matches(results, arg)
    /\ (mode = "batch" /\ call = 2) => Matches(ret1, hosts)
    /\ (mode = "batch" /\ pc = "done") => Matches(ret2, hosts)
    /\ (mode = "main" /\ pc \in {"alerts", "done"}) => Matches(mainResults, hosts)

C1_Witness ==
    /\ mode = "main"
    /\ pc = "done"
    /\ Len(hosts) = 2
    /\ hosts[1] = hosts[2]
    /\ mainResults[1][2] = None
    /\ Len(mainResults) = 2

\* Whether a server makes get_cert_info raise, and the message it raises with.
Failing(b) ==
    \/ b.kind \in {"refused", "unreachable", "badhandshake"}
    \/ b.kind = "ok" /\ b.cert \in BadCerts
MessageOf(b) ==
    CASE b.kind = "refused" -> ConnRefusedMsg
      [] b.kind = "unreachable" -> ConnTimeoutMsg
      [] b.kind = "badhandshake" -> HandshakeMsg
      [] b.kind = "ok" /\ "notAfter" \notin DOMAIN b.cert -> KeyErrorMsg
      [] OTHER -> ValueErrorMsg

\* C2: a host whose fetch fails (connection, handshake, timeout, missing or
\* malformed notAfter) gets exactly (host, None, "Error: <message>",
\* "Unknown Issuer"); the failure does not leave check_expiry, and every
\* other host gets its own record, with a days value when its fetch succeeds.
C2_FaultIsolation ==
    /\ \A p \in RecordLists :
        \A i \in 1..Len(p[1]) :
            LET rec == p[1][i]
                b == fetcher[p[2][i]]
            IN IF Failing(b)
               THEN rec = <<p[2][i], None, "Error: " \o MessageOf(b), "Unknown Issuer">>
               ELSE /\ rec[2] # None
                    /\ rec[3] \in DayStatuses
    /\ pc = "except" => exc \in {ConnRefusedMsg, ConnTimeoutMsg, HandshakeMsg,
                                 KeyErrorMsg, ValueErrorMsg}
    /\ pc = "return" => Len(results) = Len(arg)

C2_Witness ==
    /\ pc = "return"
    /\ Len(results) = 2
    /\ results[1] = <<arg[1], None, "Error: " \o HandshakeMsg, "Unknown Issuer">>
    /\ results[2][2] # None

\* C3: the status of a record with a days value is decided by the days value
\* alone (below 0 Expired, 0 to 29 Expiring Soon, 30 and more Valid); a
\* record has one of these statuses exactly when days is present and an
\* "Error: ..." status exactly when it is absent.
C3_StatusFromDays ==
    \A p \in RecordLists :
        \A i \in 1..Len(p[1]) :
            LET rec == p[1][i]
            IN /\ rec[2] # None =>
                    LET d == rec[2][1]
                    IN /\ d < 0 => rec[3] = "Expired"
                       /\ (0 <= d /\ d < 30) => rec[3] = "Expiring Soon"
                       /\ d >= 30 => rec[3] = "Valid"
               /\ rec[2] # None <=> rec[3] \in DayStatuses
               /\ rec[2] = None <=> rec[3] \in ErrorStatuses

C3_Witness ==
    /\ pc = "return"
    /\ Len(results) = 2
    /\ results[1][2] = Some(30)
    /\ results[1][3] = "Valid"
    /\ results[2][2] = Some(29)
    /\ results[2][3] = "Expiring Soon"

\* C4 as stated: days is (expiry - now) in whole days truncated toward zero,
\* for both signs of the difference.
C4_TruncatesTowardZero ==
    JustEvaluated =>
        LET d == Last(results)[2][1]
            delta == expiry - now
        IN /\ delta >= 0 => (d * 24 <= delta /\ delta < (d + 1) * 24)
           /\ delta < 0 => ((d - 1) * 24 < delta /\ delta <= d * 24)

\* C4 as amended: days is the floor of (expiry - now) in whole days, for both
\* signs of the difference (12 hours past gives -1, 5 days 1 hour past -6).
C4_FloorsDays ==
    JustEvaluated =>
        LET d == Last(results)[2][1]
            delta == expiry - now
        IN d * 24 <= delta /\ delta < (d + 1) * 24

C4_Witness ==
    /\ JustEvaluated
    /\ expiry - now = -12
    /\ Last(results)[2] = Some(-1)

\* C5 as stated: a certificate whose expiry instant is at or before the
\* instant sampled as now has days <= 0 and status Expired.
C5_PastIsExpired ==
    (JustEvaluated /\ expiry <= clock) =>
        /\ Last(results)[2][1] <= 0
        /\ Last(results)[3] = "Expired"

\* C5 as amended: when the parsed expiry reads strictly earlier than the now
\* sampled for the host, days < 0 and the status is Expired; when the two
\* read the same, days = 0 and the status is Expiring Soon.
C5_StrictlyPastIsExpired ==
    JustEvaluated =>
        /\ expiry < now =>
            (Last(results)[2][1] < 0 /\ Last(results)[3] = "Expired")
        /\ expiry = now =>
            (Last(results)[2] = Some(0) /\ Last(results)[3] = "Expiring Soon")

C5_Witness ==
    /\ JustEvaluated
    /\ tzOffset = 0
    /\ expiry = clock
    /\ Last(results)[3] = "Expiring Soon"

\* C6: every get_cert_info call ends (with a result or an exception), so
\* every check_expiry call reaches its return.
C6_FetchTerminates ==
    /\ (pc = "connect") ~> (pc \in {"evaluate", "except"})
    /\ (pc = "loop") ~> (pc = "return")

\* C7: a fetch makes at most one connection attempt; at most one connection
\* and one TLS session are open at any time, and none is open outside
\* get_cert_info: when the record is appended, between hosts, at the return.
C7_ScopedConnection ==
    /\ attempts <= 1
    /\ openSocks \in {0, 1}
    /\ openSessions \in {0, 1}
    /\ openSessions <= openSocks
    /\ pc \notin {"handshake", "cert"} => (openSocks = 0 /\ openSessions = 0)

C7_Witness ==
    /\ pc = "loop"
    /\ Len(results) = 2
    /\ results[1][3] = "Error: " \o HandshakeMsg
    /\ results[2][3] = "Error: " \o ValueErrorMsg
    /\ openSocks = 0

\* C8 as stated: two calls of check_expiry on the same input with the same
\* fetcher give the same status and issuer at every position.
C8_SameStatusAndIssuer ==
    (mode = "batch" /\ pc = "done") =>
        /\ Len(ret1) = Len(ret2)
        /\ \A i \in 1..Len(ret1) :
            ret1[i][3] = ret2[i][3] /\ ret1[i][4] = ret2[i][4]

\* C8 as amended: the two calls give the same number of records, the same
\* host and issuer at every position, and the same status at every position
\* where the days value is the same (so always for a host whose fetch fails).
C8_SameIssuerAndStatusPerDays ==
    (mode = "batch" /\ pc = "done") =>
        /\ Len(ret1) = Len(ret2)
        /\ \A i \in 1..Len(ret1) :
            /\ ret1[i][1] = ret2[i][1]
            /\ ret1[i][4] = ret2[i][4]
            /\ ret1[i][2] = ret2[i][2] => ret1[i][3] = ret2[i][3]
            /\ ret1[i][2] = None <=> ret2[i][2] = None

C8_Witness ==
    /\ mode = "batch"
    /\ pc = "done"
    /\ Len(ret1) = 2
    /\ ret1[1][2] # None
    /\ ret1[1][2] = ret2[1][2]
    /\ ret1[2][2] # None
    /\ ret1[2][2] # ret2[2][2]

\* C9: days is the whole-day difference between the certificate's expiry
\* instant (notAfter, GMT) and the current instant, whatever the local zone.
C9_ZoneIndependent ==
    JustEvaluated =>
        LET d == Last(results)[2][1]
            delta == expiry - clock
        IN d * 24 <= delta /\ delta < (d + 1) * 24

\* C10: the alert of each record matches its status: error exactly for
\* Expired, warning exactly for Expiring Soon, success exactly for Valid; a
\* failed host is never announced as valid.
C10_AlertMatchesStatus ==
    \A i \in 1..Len(alerts) :
        LET rec == mainResults[i]
            kind == alerts[i].kind
        IN /\ kind = "error" <=> rec[3] = "Expired"
           /\ kind = "warning" <=> rec[3] = "Expiring Soon"
           /\ kind = "success" <=> rec[3] = "Valid"
           /\ rec[2] = None => kind # "success"

====
